---- MODULE Spec2Model ----
(***************************************************************************)
(* A model of sl10n's define_l10n! macro (src/src/lib.rs): the message     *)
(* table built by new(), the lookup-and-substitute routine get_msg with    *)
(* its convenience forms msg and dyn_msg, and the process-wide lazily      *)
(* initialised table of the modules example (static MSGS, function t).     *)
(*                                                                         *)
(* A string is a sequence of characters, each character a one-element      *)
(* TLA+ string ("U+041F" stands for the Unicode scalar of that number).    *)
(* A HashMap<&str, &str> handed to get_msg is the sequence of its entries  *)
(* in the order its iterator yields them; the names of the entries are     *)
(* distinct.  A HashMap used only through insert and get is a function.    *)
(***************************************************************************)
EXTENDS Naturals, Sequences, FiniteSets, TLC

VARIABLES
    defn,     \* the define_l10n! invocation: <<[key, langs: <<[lang, value]>>]>>
    tables,   \* the instances new() has returned, by the binding that holds them
    input,    \* the HashMap the caller has filled for its next lookup
    call,     \* the most recent lookup: op, instance, key, lang, params
    out,      \* the String that lookup returned
    lazy,     \* state of the once-cell behind static MSGS
    cell,     \* the value stored in MSGS once it is complete
    runs,     \* how many times the initializer || Msgs::new() has started
    tpc,      \* per thread: position in t()
    targ,     \* per thread: the arguments of its call of t()
    building, \* per thread: `messages` of a new() in progress
    bstep,    \* per thread: the next key group new() inserts
    tout      \* per thread: the String t() returned

tvars == <<defn, tables, input, call, out>>
lvars == <<lazy, cell, runs, tpc, targ, building, bstep, tout>>
vars == <<defn, tables, input, call, out, lazy, cell, runs, tpc, targ, building, bstep, tout>>

(***************************************************************************)
(* Bounds of the model.                                                    *)
(***************************************************************************)
MaxDecls == 2    \* language entries declared in one definition
MaxTplLen == 5   \* characters of a template in the substitution model
MaxParams == 2   \* entries of a params map in the substitution model
NumThreads == 2  \* threads calling t() concurrently

(***************************************************************************)
(* Strings.                                                                *)
(***************************************************************************)
Chars == {"{", "}", "a"}

RECURSIVE StringsOfLen(_)
StringsOfLen(n) ==
    IF n = 0 THEN {<<>>}
    ELSE {<<c>> \o s : c \in Chars, s \in StringsOfLen(n - 1)}

StringsUpTo(n) == UNION {StringsOfLen(k) : k \in 0..n}

\* str::len of the pattern is never 0 here: format always yields "{" .. "}".
MatchesAt(s, i, pat) ==
    /\ i + Len(pat) - 1 <= Len(s)
    /\ SubSeq(s, i, i + Len(pat) - 1) = pat

\* str::replace: the non-overlapping matches of `from`, leftmost first.
RECURSIVE replaceFrom(_, _, _, _)
replaceFrom(s, i, from, to) ==
    IF i > Len(s) THEN <<>>
    ELSE IF MatchesAt(s, i, from)
         THEN to \o replaceFrom(s, i + Len(from), from, to)
         ELSE <<s[i]>> \o replaceFrom(s, i + 1, from, to)

\* A replace that stops after the first match (str::replacen(_, _, 1)).
replace_first(s, from, to) ==
    IF \E i \in 1..Len(s) : MatchesAt(s, i, from)
    THEN LET i == CHOOSE j \in 1..Len(s) :
                      /\ MatchesAt(s, j, from)
                      /\ \A h \in 1..(j - 1) : ~MatchesAt(s, h, from)
         IN SubSeq(s, 1, i - 1) \o to \o SubSeq(s, i + Len(from), Len(s))
    ELSE s

replace(s, from, to) == replaceFrom(s, 1, from, to)

\* A format string that lost its closing brace: format!("{{{}", k).
format_unclosed(k) == <<"{">> \o k

\* format!("{{{}}}", k)
format(k) == <<"{">> \o k \o <<"}">>

(***************************************************************************)
(* HashMap, as new() and get_msg use it.                                   *)
(***************************************************************************)
EmptyMap == <<>>

\* entry(k).or_insert(v): an existing entry is kept.
insert_first_wins(m, k, v) ==
    [x \in (DOMAIN m) \cup {k} |-> IF x \in DOMAIN m THEN m[x] ELSE v]

\* HashMap::insert: the value replaces an earlier one under the same key.
insert(m, k, v) ==
    [x \in (DOMAIN m) \cup {k} |-> IF x = k THEN v ELSE m[x]]

None == [some |-> FALSE, entries |-> <<>>]
Some(p) == [some |-> TRUE, entries |-> p]

(***************************************************************************)
(* new(): the table of a definition.                                       *)
(***************************************************************************)
\* The inner repetition: lang_map.insert(stringify!($lang).to_string(), $value)
RECURSIVE lang_map_from(_, _, _)
lang_map_from(lang_map, langs, i) ==
    IF i > Len(langs) THEN lang_map
    ELSE lang_map_from(insert(lang_map, langs[i].lang, langs[i].value), langs, i + 1)

\* let mut lang_map = HashMap::new(); followed by the inserts of one key group.
lang_map_of(group) == lang_map_from(EmptyMap, group.langs, 1)

\* One key group: build its lang_map, then messages.insert($enum_name::$key, lang_map).
insert_group(messages, group) == insert(messages, group.key, lang_map_of(group))

RECURSIVE messages_from(_, _, _)
messages_from(messages, definition, i) ==
    IF i > Len(definition) THEN messages
    ELSE messages_from(insert_group(messages, definition[i]), definition, i + 1)

\* A new() whose lang_map is declared once, outside the repetition over the
\* keys, so that a key's map still holds the entries of the keys before it.
RECURSIVE messages_shared_from(_, _, _, _)
messages_shared_from(messages, lang_map, definition, i) ==
    IF i > Len(definition) THEN messages
    ELSE LET lm == lang_map_from(lang_map, definition[i].langs, 1)
         IN messages_shared_from(insert(messages, definition[i].key, lm),
                                 lm, definition, i + 1)

new_shared_lang_map(definition) ==
    [messages |-> messages_shared_from(EmptyMap, EmptyMap, definition, 1)]

\* A new() that leaves out messages.insert for the last key group.
new_missing_insert(definition) ==
    [messages |-> messages_from(EmptyMap,
                                SubSeq(definition, 1, Len(definition) - 1), 1)]

\* A new() that moves the declarations out of shared storage: only the first
\* instance gets them.
new_draining(definition) ==
    [messages |-> IF DOMAIN tables = {} THEN messages_from(EmptyMap, definition, 1)
                  ELSE EmptyMap]

new(definition) == [messages |-> messages_from(EmptyMap, definition, 1)]

(***************************************************************************)
(* get_msg, msg, dyn_msg.                                                  *)
(***************************************************************************)
\* self.messages.get(&key).and_then(|langs| langs.get(lang)).copied().unwrap_or("")
message_of(self, key, lang) ==
    IF key \in DOMAIN self.messages /\ lang \in DOMAIN self.messages[key]
    THEN self.messages[key][lang]
    ELSE <<>>

\* The loop, with every replace applied to the template, not to `result`.
RECURSIVE substitute_on_template(_, _, _)
substitute_on_template(result, params, i) ==
    IF i > Len(params) THEN result
    ELSE LET r == replace(result, format(params[i].name), params[i].value)
         IN IF i = Len(params) THEN r
            ELSE substitute_on_template(result, params, i + 1)

\* The loop, left at the first param that changed the result.
RECURSIVE substitute_break(_, _, _)
substitute_break(result, params, i) ==
    IF i > Len(params) THEN result
    ELSE LET r == replace(result, format(params[i].name), params[i].value)
         IN IF r # result THEN r
            ELSE substitute_break(result, params, i + 1)

\* for (k, v) in params { result = result.replace(&format!("{{{}}}", k), v); }
\* from the i-th entry of the iteration on.
RECURSIVE substitute(_, _, _)
substitute(result, params, i) ==
    IF i > Len(params) THEN result
    ELSE substitute(replace(result, format(params[i].name), params[i].value),
                    params, i + 1)

get_msg(self, key, lang, params) ==
    LET message == message_of(self, key, lang)
    IN IF params.some THEN substitute(message, params.entries, 1) ELSE message

msg(self, key, lang) == get_msg(self, key, lang, None)

\* A dyn_msg that passes None on.
dyn_msg_static(self, key, lang, params) == get_msg(self, key, lang, None)

dyn_msg(self, key, lang, params) == get_msg(self, key, lang, Some(params))

(***************************************************************************)
(* Inputs.                                                                 *)
(***************************************************************************)
RECURSIVE SeqsUpTo(_, _)
SeqsUpTo(S, n) ==
    IF n = 0 THEN {<<>>}
    ELSE LET shorter == SeqsUpTo(S, n - 1)
         IN shorter \cup
            {Append(p, e) : p \in {q \in shorter : Len(q) = n - 1}, e \in S}

DistinctNames(p) == \A i, j \in 1..Len(p) : i # j => p[i].name # p[j].name

\* The enum variants of the table model, in declaration order.
TableKeys == <<"Greeting", "Farewell">>
TableLangs == {"en", "ru"}
TableTemplates == {<<"a">>, <<"{", "a", "}">>}
LookupLangs == {"en", "ru", "EN"}
TableParamMaps == {<<>>, <<[name |-> <<"a">>, value |-> <<"a", "a">>]>>}

Decls == [lang : TableLangs, value : TableTemplates]

TableDefinitions ==
    UNION {{<<[key |-> TableKeys[1], langs |-> SubSeq(l, 1, n)],
              [key |-> TableKeys[2], langs |-> SubSeq(l, n + 1, Len(l))]>> :
               n \in 0..Len(l)} : l \in SeqsUpTo(Decls, MaxDecls)}

\* The bindings `let msgs = Msgs::new()` of the callers.
Instances == {"msgs1", "msgs2"}

\* The substitution model: one key, one language, any template; any params map.
SubstKey == "Greeting"
SubstLang == "en"
ParamNames == {<<>>, <<"a">>, <<"a", "}">>}
ParamValues == {<<>>, <<"a">>, <<"{">>, <<"}">>}
HashMaps ==
    {p \in SeqsUpTo([name : ParamNames, value : ParamValues], MaxParams) :
        DistinctNames(p)}

SubstDefinitions ==
    {<<[key |-> SubstKey, langs |-> <<[lang |-> SubstLang, value |-> tpl]>>]>> :
        tpl \in StringsUpTo(MaxTplLen)}

NoCall == [op |-> "none", inst |-> "", key |-> "", lang |-> "", params |-> None]

Threads == 1..NumThreads
NoArg == [key |-> "", lang |-> "", params |-> None]

LazyIdle ==
    /\ lazy = "INCOMPLETE"
    /\ cell = new(<<>>)
    /\ runs = 0
    /\ tpc = [t \in Threads |-> "idle"]
    /\ targ = [t \in Threads |-> NoArg]
    /\ building = [t \in Threads |-> EmptyMap]
    /\ bstep = [t \in Threads |-> 1]
    /\ tout = [t \in Threads |-> <<>>]

(***************************************************************************)
(* The table model: a definition, instances of it, lookups on them.        *)
(***************************************************************************)
Init ==
    /\ defn \in TableDefinitions
    /\ tables = EmptyMap
    /\ input = <<>>
    /\ call = NoCall
    /\ out = <<>>
    /\ LazyIdle

\* let msgs = Msgs::new();
New(i) ==
    /\ i \notin DOMAIN tables
    /\ tables' = insert(tables, i, new(defn))
    /\ UNCHANGED <<defn, input, call, out>>
    /\ UNCHANGED lvars

GetMsg(i, key, lang, params) ==
    /\ i \in DOMAIN tables
    /\ out' = get_msg(tables[i], key, lang, params)
    /\ call' = [op |-> "get_msg", inst |-> i, key |-> key, lang |-> lang,
                params |-> params]
    /\ UNCHANGED <<defn, tables, input>>
    /\ UNCHANGED lvars

Msg(i, key, lang) ==
    /\ i \in DOMAIN tables
    /\ out' = msg(tables[i], key, lang)
    /\ call' = [op |-> "msg", inst |-> i, key |-> key, lang |-> lang,
                params |-> None]
    /\ UNCHANGED <<defn, tables, input>>
    /\ UNCHANGED lvars

DynMsg(i, key, lang, params) ==
    /\ i \in DOMAIN tables
    /\ out' = dyn_msg(tables[i], key, lang, params)
    /\ call' = [op |-> "dyn_msg", inst |-> i, key |-> key, lang |-> lang,
                params |-> Some(params)]
    /\ UNCHANGED <<defn, tables, input>>
    /\ UNCHANGED lvars

KeysOf(definition) == {definition[g].key : g \in 1..Len(definition)}

Next ==
    \/ \E i \in Instances : New(i)
    \/ \E i \in Instances, key \in KeysOf(defn), lang \in LookupLangs :
          \/ GetMsg(i, key, lang, None)
          \/ \E p \in TableParamMaps : GetMsg(i, key, lang, Some(p))
          \/ Msg(i, key, lang)
          \/ \E p \in TableParamMaps : DynMsg(i, key, lang, p)

Spec == Init /\ [][Next]_vars

(***************************************************************************)
(* The substitution model: one constructed table, get_msg with params.     *)
(***************************************************************************)
InitSubst ==
    /\ defn \in SubstDefinitions
    /\ tables = insert(EmptyMap, "msgs1", new(defn))
    /\ input \in HashMaps
    /\ call = NoCall
    /\ out = <<>>
    /\ LazyIdle

NextSubst == GetMsg("msgs1", SubstKey, SubstLang, Some(input))

SpecSubst == InitSubst /\ [][NextSubst]_vars

(***************************************************************************)
(* What the claims speak of.                                               *)
(***************************************************************************)
Declared(definition, key, lang) ==
    \E g \in 1..Len(definition) :
        /\ definition[g].key = key
        /\ \E i \in 1..Len(definition[g].langs) : definition[g].langs[i].lang = lang

\* No later entry of the same key group declares the language of entry i again.
IsLast(langs, i) == \A j \in (i + 1)..Len(langs) : langs[j].lang # langs[i].lang

Holds(self, key, lang) ==
    key \in DOMAIN self.messages /\ lang \in DOMAIN self.messages[key]

LangsOf(group) == {group.langs[i].lang : i \in 1..Len(group.langs)}

\* C1 (as amended): in every table new() has built, every declared (key,
\* language) pair is present, and for every declared (key, language, template)
\* triple that is the last declaration of its pair, msg(key, language) and
\* get_msg(key, language, None) return exactly that template.
C1_LastDeclaredReturned ==
    \A inst \in DOMAIN tables : \A g \in 1..Len(defn) :
        \A i \in 1..Len(defn[g].langs) :
            LET d == defn[g].langs[i]
            IN /\ Holds(tables[inst], defn[g].key, d.lang)
               /\ IsLast(defn[g].langs, i) =>
                     /\ msg(tables[inst], defn[g].key, d.lang) = d.value
                     /\ get_msg(tables[inst], defn[g].key, d.lang, None) = d.value

\* C1 as stated: every declared triple, the last of its pair or not, is what
\* msg(key, language) returns.
C1_EveryDeclaredReturned ==
    \A inst \in DOMAIN tables : \A g \in 1..Len(defn) :
        \A i \in 1..Len(defn[g].langs) :
            /\ Holds(tables[inst], defn[g].key, defn[g].langs[i].lang)
            /\ msg(tables[inst], defn[g].key, defn[g].langs[i].lang)
                   = defn[g].langs[i].value

\* A table of a definition whose two keys declare different, non-empty sets of
\* languages, answering for the second key with the template declared last.
C1_Witness ==
    /\ DOMAIN tables # {}
    /\ LangsOf(defn[1]) # {} /\ LangsOf(defn[2]) # {}
    /\ LangsOf(defn[1]) # LangsOf(defn[2])
    /\ \A inst \in DOMAIN tables :
          msg(tables[inst], defn[2].key, defn[2].langs[1].lang)
              = defn[2].langs[Len(defn[2].langs)].value

\* C2: a lookup of a language that was not declared for the key returns the
\* empty string, whether params is absent, empty or non-empty.
C2_UndeclaredLanguageEmpty ==
    (call.op # "none" /\ ~Declared(defn, call.key, call.lang)) => out = <<>>

\* A get_msg with a non-empty params map for a language the key does not
\* declare, while the key declares another language and the other key declares
\* this one.
C2_Witness ==
    /\ call.op = "get_msg"
    /\ call.params.some /\ call.params.entries # <<>>
    /\ call.lang = "ru"
    /\ ~Declared(defn, call.key, call.lang)
    /\ Declared(defn, call.key, "en")
    /\ \E key \in KeysOf(defn) : Declared(defn, key, call.lang)
    /\ out = <<>>

\* C6: msg(key, lang) returns what get_msg(key, lang, None) returns, and
\* dyn_msg(key, lang, p) what get_msg(key, lang, Some(p)) returns.
C6_ConvenienceFormsAgree ==
    /\ call.op = "msg" =>
          out = get_msg(tables[call.inst], call.key, call.lang, None)
    /\ call.op = "dyn_msg" =>
          /\ call.params.some
          /\ out = get_msg(tables[call.inst], call.key, call.lang, call.params)

\* A dyn_msg whose params changed the template.
C6_Witness ==
    /\ call.op = "dyn_msg"
    /\ Holds(tables[call.inst], call.key, call.lang)
    /\ out # tables[call.inst].messages[call.key][call.lang]
    /\ out # <<>>

C9_LastDeclarationWins ==
    \A inst \in DOMAIN tables : \A g \in 1..Len(defn) :
        \A i, j \in 1..Len(defn[g].langs) :
            (/\ i < j
             /\ defn[g].langs[i].lang = defn[g].langs[j].lang
             /\ IsLast(defn[g].langs, j)) =>
                /\ Holds(tables[inst], defn[g].key, defn[g].langs[j].lang)
                /\ tables[inst].messages[defn[g].key][defn[g].langs[j].lang]
                       = defn[g].langs[j].value
                /\ get_msg(tables[inst], defn[g].key, defn[g].langs[j].lang, None)
                       = defn[g].langs[j].value

\* A lookup of a pair declared twice with different templates returned the
\* later one.
C9_Witness ==
    /\ call.op = "msg"
    /\ \E g \in 1..Len(defn) : \E i, j \in 1..Len(defn[g].langs) :
          /\ i < j
          /\ defn[g].key = call.key
          /\ defn[g].langs[i].lang = call.lang
          /\ defn[g].langs[j].lang = call.lang
          /\ IsLast(defn[g].langs, j)
          /\ defn[g].langs[i].value # defn[g].langs[j].value
          /\ out = defn[g].langs[j].value

(***************************************************************************)
(* Substitution.                                                           *)
(***************************************************************************)
Braces == {"{", "}"}
NoBrace(s) == \A i \in 1..Len(s) : s[i] \notin Braces
NoOpenBrace(s) == \A i \in 1..Len(s) : s[i] # "{"

\* The placeholder of a name, as the specification writes it.
Token(name) == <<"{">> \o name \o <<"}">>

\* Every brace of s belongs to a well-formed, non-nested {ident} token.
RECURSIVE WellFormedFrom(_, _, _)
WellFormedFrom(s, i, inside) ==
    IF i > Len(s) THEN ~inside
    ELSE IF s[i] = "{" THEN ~inside /\ WellFormedFrom(s, i + 1, TRUE)
    ELSE IF s[i] = "}" THEN inside /\ WellFormedFrom(s, i + 1, FALSE)
    ELSE WellFormedFrom(s, i + 1, inside)

WellFormed(s) == WellFormedFrom(s, 1, FALSE)

\* One pass over the original template: each token of a params name becomes
\* its value, all other text is kept.
RECURSIVE SimultaneousFrom(_, _, _)
SimultaneousFrom(s, i, p) ==
    IF i > Len(s) THEN <<>>
    ELSE LET hits == {e \in 1..Len(p) : MatchesAt(s, i, Token(p[e].name))}
         IN IF hits = {} THEN <<s[i]>> \o SimultaneousFrom(s, i + 1, p)
            ELSE LET e == CHOOSE x \in hits : \A y \in hits : x <= y
                 IN p[e].value \o
                    SimultaneousFrom(s, i + Len(Token(p[e].name)), p)

Simultaneous(s, p) == SimultaneousFrom(s, 1, p)

Count(s, pat) == Cardinality({i \in 1..Len(s) : MatchesAt(s, i, pat)})

Idents == {s \in StringsUpTo(MaxTplLen) : NoBrace(s)}

NamesOf(p) == {p[e].name : e \in 1..Len(p)}

\* The same map under every order its iterator may take.
Orders(p) ==
    {[i \in 1..Len(p) |-> p[f[i]]] :
        f \in {h \in [1..Len(p) -> 1..Len(p)] :
                  \A x, y \in 1..Len(p) : x # y => h[x] # h[y]}}

\* The template and the params of the lookup under way in the substitution model.
Template == defn[1].langs[1].value
Given == call.params.entries
Looked == call.op = "get_msg" /\ call.params.some

NamesBraceFree == \A e \in 1..Len(Given) : NoBrace(Given[e].name)
ValuesBraceFree == \A e \in 1..Len(Given) : NoBrace(Given[e].value)
ValuesOpenFree == \A e \in 1..Len(Given) : NoOpenBrace(Given[e].value)

\* C3 (as amended): when no params name contains a brace, no params value
\* contains "{" and every brace of the template belongs to a well-formed
\* {ident} token, get_msg returns the template with every occurrence of {name}
\* replaced by the value of name, for every entry of params.
C3_SubstitutesEveryOccurrence ==
    (Looked /\ NamesBraceFree /\ ValuesOpenFree /\ WellFormed(Template)) =>
        out = Simultaneous(Template, Given)

\* C3 as stated: for any template and params, the result is the template with
\* the occurrences of {name} in the template replaced.
C3_SubstitutesAlways == Looked => out = Simultaneous(Template, Given)

\* Two tokens replaced, one of them by a value that holds a "}".
C3_Witness ==
    /\ Looked /\ NamesBraceFree /\ ValuesOpenFree /\ WellFormed(Template)
    /\ Len(Given) = 2
    /\ \A e \in 1..2 : Count(Template, Token(Given[e].name)) > 0
    /\ \E e \in 1..2 : Given[e].value = <<"}">>
    /\ out = Simultaneous(Template, Given)
    /\ out # Template

\* C4 (as amended): under the same three conditions the string get_msg returns
\* is the same for every order in which the loop visits the entries of params.
C4_OrderIndependent ==
    (Looked /\ NamesBraceFree /\ ValuesOpenFree /\ WellFormed(Template)) =>
        \A q \in Orders(Given) :
            get_msg(tables[call.inst], call.key, call.lang, Some(q)) = out

\* C4 as stated: for any template and any params the order does not matter.
C4_OrderIndependentAlways ==
    Looked =>
        \A q \in Orders(Given) :
            get_msg(tables[call.inst], call.key, call.lang, Some(q)) = out

\* The template "{}{a}" with both names given values: two orders, one result.
C4_Witness ==
    /\ Looked /\ NamesBraceFree /\ ValuesOpenFree
    /\ Template = <<"{", "}", "{", "a", "}">>
    /\ Len(Given) = 2
    /\ Cardinality(Orders(Given)) = 2
    /\ Given[1].value # Given[2].value
    /\ \A q \in Orders(Given) :
          get_msg(tables[call.inst], call.key, call.lang, Some(q)) = out

\* C5 (as amended): when no params name contains a brace, every placeholder
\* {ident} of the template whose ident is not a name of params occurs in the
\* output at least as often as in the template; with an empty params map the
\* output is the template.
C5_UnresolvedKept ==
    Looked =>
        /\ NamesBraceFree =>
              \A m \in Idents \ NamesOf(Given) :
                  Count(out, Token(m)) >= Count(Template, Token(m))
        /\ Given = <<>> => out = Template

\* C5 as stated: whatever the names of params are.
C5_UnresolvedKeptAlways ==
    Looked =>
        /\ \A m \in Idents \ NamesOf(Given) :
              Count(out, Token(m)) >= Count(Template, Token(m))
        /\ Given = <<>> => out = Template

\* "{a}{}" with only the empty name given: {} is replaced, {a} stays.
C5_Witness ==
    /\ Looked /\ NamesBraceFree
    /\ NamesOf(Given) = {<<>>}
    /\ Template = <<"{", "a", "}", "{", "}">>
    /\ Given[1].value = <<"a">>
    /\ out = <<"{", "a", "}", "a">>

\* C10: when no params name and no params value contains a brace and every
\* brace of the template belongs to a well-formed {ident} token, the loop's
\* result is the one-pass simultaneous substitution of the original template.
C10_SequentialIsSimultaneous ==
    (Looked /\ NamesBraceFree /\ ValuesBraceFree /\ WellFormed(Template)) =>
        out = Simultaneous(Template, Given)

\* A value that is itself a params name is inserted and left alone: "{}{a}"
\* with "" -> "a" and "a" -> "" gives "a".
C10_Witness ==
    /\ Looked /\ NamesBraceFree /\ ValuesBraceFree
    /\ Template = <<"{", "}", "{", "a", "}">>
    /\ Len(Given) = 2
    /\ \E e \in 1..2 : Given[e].name = <<>> /\ Given[e].value = <<"a">>
    /\ \E e \in 1..2 : Given[e].name = <<"a">> /\ Given[e].value = <<>>
    /\ out = <<"a">>

(***************************************************************************)
(* The modules example: static MSGS: Lazy<Msgs> = Lazy::new(|| Msgs::new()) *)
(* and t(), called from several threads.  The cell is once_cell's          *)
(* sync::Lazy: a caller that finds it INCOMPLETE claims it (one atomic     *)
(* compare-and-swap to RUNNING) and runs the initializer; a caller that    *)
(* finds it RUNNING blocks until it is COMPLETE; the value is stored       *)
(* before the state becomes COMPLETE.                                      *)
(***************************************************************************)
Hello == <<"H", "e", "l", "l", "o", "!">>
Privet == <<"U+041F", "U+0440", "U+0438", "U+0432", "U+0435", "U+0442", "!">>
Hola == <<"U+00A1", "H", "o", "l", "a", "!">>
NamePlaceholder == <<"{", "n", "a", "m", "e", "}">>
Goodbye == <<"G", "o", "o", "d", "b", "y", "e", ",", " ">> \o NamePlaceholder \o <<".">>
Poka == <<"U+041F", "U+043E", "U+043A", "U+0430", ",", " ">> \o NamePlaceholder \o <<".">>
Adios == <<"A", "d", "i", "U+00F3", "s", ",", " ">> \o NamePlaceholder \o <<".">>
Alice == <<"A", "l", "i", "c", "e">>

\* define_l10n! { Greeting => {en, ru, es}, Farewell => {en, ru, es} }
FirstDefinition ==
    <<[key |-> "Greeting",
       langs |-> <<[lang |-> "en", value |-> Hello],
                   [lang |-> "ru", value |-> Privet],
                   [lang |-> "es", value |-> Hola]>>],
      [key |-> "Farewell",
       langs |-> <<[lang |-> "en", value |-> Goodbye],
                   [lang |-> "ru", value |-> Poka],
                   [lang |-> "es", value |-> Adios]>>]>>

\* The calls of t() that main makes, and one for a language not declared.
NameAlice == <<[name |-> <<"n", "a", "m", "e">>, value |-> Alice]>>
TArgs ==
    {[key |-> "Greeting", lang |-> "en", params |-> None],
     [key |-> "Farewell", lang |-> "en", params |-> Some(NameAlice)],
     [key |-> "Greeting", lang |-> "fr", params |-> None]}

InitLazy ==
    /\ defn = FirstDefinition
    /\ tables = EmptyMap
    /\ input = <<>>
    /\ call = NoCall
    /\ out = <<>>
    /\ LazyIdle

\* A check-then-act on a plain flag: whoever has not seen the value stored
\* starts the initializer.
MayStartInitializer_unsync(state) == state # "COMPLETE"

\* sync::Lazy: the compare-and-swap INCOMPLETE -> RUNNING succeeds for one caller.
MayStartInitializer(state) == state = "INCOMPLETE"

\* A thread enters t(msg, lang, params).
TCall(th, a) ==
    /\ tpc[th] = "idle"
    /\ tpc' = [tpc EXCEPT ![th] = "force"]
    /\ targ' = [targ EXCEPT ![th] = a]
    /\ UNCHANGED <<lazy, cell, runs, building, bstep, tout>>
    /\ UNCHANGED tvars

\* The deref of MSGS: the value is there, or this caller initializes, or it
\* waits (no step while another caller is RUNNING the initializer).
TForce(th) ==
    /\ tpc[th] = "force"
    /\ \/ /\ lazy = "COMPLETE"
          /\ tpc' = [tpc EXCEPT ![th] = "read"]
          /\ UNCHANGED <<lazy, runs, building, bstep>>
       \/ /\ MayStartInitializer(lazy)
          /\ lazy' = "RUNNING"
          /\ runs' = runs + 1
          /\ building' = [building EXCEPT ![th] = EmptyMap]
          /\ bstep' = [bstep EXCEPT ![th] = 1]
          /\ tpc' = [tpc EXCEPT ![th] = "init"]
    /\ UNCHANGED <<cell, targ, tout>>
    /\ UNCHANGED tvars

\* Msgs::new(), one key group at a time.
TInitStep(th) ==
    /\ tpc[th] = "init"
    /\ bstep[th] <= Len(defn)
    /\ building' = [building EXCEPT ![th] = insert_group(building[th], defn[bstep[th]])]
    /\ bstep' = [bstep EXCEPT ![th] = bstep[th] + 1]
    /\ UNCHANGED <<lazy, cell, runs, tpc, targ, tout>>
    /\ UNCHANGED tvars

\* new() returns $struct_name { messages }; the cell stores it and completes.
TInitDone(th) ==
    /\ tpc[th] = "init"
    /\ bstep[th] > Len(defn)
    /\ cell' = [messages |-> building[th]]
    /\ lazy' = "COMPLETE"
    /\ tpc' = [tpc EXCEPT ![th] = "read"]
    /\ UNCHANGED <<runs, targ, building, bstep, tout>>
    /\ UNCHANGED tvars

\* MSGS.get_msg(msg, lang, params)
TGetMsg(th) ==
    /\ tpc[th] = "read"
    /\ tout' = [tout EXCEPT ![th] =
                   get_msg(cell, targ[th].key, targ[th].lang, targ[th].params)]
    /\ tpc' = [tpc EXCEPT ![th] = "done"]
    /\ UNCHANGED <<lazy, cell, runs, targ, building, bstep>>
    /\ UNCHANGED tvars

NextLazy ==
    \E th \in Threads :
        \/ \E a \in TArgs : TCall(th, a)
        \/ TForce(th)
        \/ TInitStep(th)
        \/ TInitDone(th)
        \/ TGetMsg(th)

SpecLazy == InitLazy /\ [][NextLazy]_vars

\* C7: under every interleaving of the threads' first calls of t() the
\* initializer starts at most once, a thread reads MSGS only once it is
\* complete and holds the whole table, and every answer is the one the fully
\* constructed table gives.
C7_InitializedOnce ==
    /\ runs <= 1
    /\ \A th \in Threads :
          /\ tpc[th] \in {"read", "done"} =>
                lazy = "COMPLETE" /\ cell = new(defn)
          /\ tpc[th] = "done" =>
                tout[th] = get_msg(new(defn), targ[th].key, targ[th].lang,
                                   targ[th].params)

\* A thread that did not run the initializer got "Goodbye, Alice." from the
\* table another thread built.
C7_Witness ==
    \E t1, t2 \in Threads :
        /\ bstep[t1] = Len(defn) + 1
        /\ bstep[t2] = 1
        /\ tpc[t2] = "done"
        /\ targ[t2].params.some
        /\ tout[t2] = <<"G", "o", "o", "d", "b", "y", "e", ",", " ">> \o Alice \o <<".">>
        /\ runs = 1

====
